---- MODULE Spec2Model ----
(***************************************************************************)
(* Watermark-Deksmo: the placement engine (pick_position and its helpers)  *)
(* and the batch pipeline (run_with_args / process_file) of                *)
(* src/watermark_bulk.py, and the window of src/app/gui.py with its batch  *)
(* worker, as state machines.                                              *)
(*                                                                         *)
(*   SpecPick : one call of pick_position on inputs drawn from bounded     *)
(*              sets.                                                      *)
(*   Spec     : two consecutive runs of run_with_args over one input tree  *)
(*              and one output tree.                                       *)
(*   SpecFn   : one call of one function on inputs drawn from bounded      *)
(*              sets.                                                      *)
(*   SpecGui  : the handlers of the window on Tk's thread, interleaved     *)
(*              with the steps of the batch worker.                        *)
(***************************************************************************)
EXTENDS Integers, Sequences, FiniteSets, TLC

VARIABLES
    call,       \* pick_position: the arguments of the call
    ret,        \* pick_position: NotCalled, the returned tuple, or ValueError
    args,       \* run_with_args: the run configuration (argparse.Namespace)
    env,        \* run_with_args: what the run finds on disk before it starts
    files,      \* the output tree: output path -> content of the file there
    dirs,       \* the output tree: directories made by mkdir
    log,        \* the lines handed to the log sink, in order
    pc,         \* run_with_args: "start", "loop", "done", "exit", "raised"
    pages,      \* run_with_args: the local list pages
    idx,        \* run_with_args: position of the for loop in pages
    run,        \* which of the two consecutive runs is executing
    hist,       \* observation: what each finished run left behind
    app,        \* WatermarkApp: the fields of the window, and Tk's queue of
                \* callbacks scheduled with after()
    worker      \* WatermarkApp: the worker threads that are executing worker()

vars == <<call, ret, args, env, files, dirs, log, pc, pages, idx, run, hist, app, worker>>

(***************************************************************************)
(* Bounds of the model.                                                    *)
(***************************************************************************)
MaxPage   == 4      \* largest page width/height, in pixels
MaxWm     == 2      \* largest watermark width/height, in pixels
MaxOffset == 1      \* offsets are -MaxOffset, 0 or MaxOffset
MaxZones  == 1      \* longest avoid list

(***************************************************************************)
(* Python values.                                                          *)
(***************************************************************************)
None       == "None"
ValueError == <<>>          \* an exception leaving the function
NotCalled  == <<"not called">>

\* ANCHORS, lines 21-27
ANCHORS == {"top-left", "top-right", "bottom-left", "bottom-right", "center"}

(***************************************************************************)
(* anchor_position, lines 149-160.  // is floor division, as \div is.      *)
(***************************************************************************)
\* variant: an anchor that is not known is placed as center
anchor_position_unknown_is_center(anchor, page_w, page_h, wm_w, wm_h, margin) ==
    CASE anchor = "top-left"     -> <<margin, margin>>
      [] anchor = "top-right"    -> <<page_w - wm_w - margin, margin>>
      [] anchor = "bottom-left"  -> <<margin, page_h - wm_h - margin>>
      [] anchor = "bottom-right" -> <<page_w - wm_w - margin, page_h - wm_h - margin>>
      [] OTHER                   -> <<(page_w - wm_w) \div 2, (page_h - wm_h) \div 2>>
\* variant: the bottom anchors leave no margin below the watermark
anchor_position_bottom_no_margin(anchor, page_w, page_h, wm_w, wm_h, margin) ==
    CASE anchor = "top-left"     -> <<margin, margin>>
      [] anchor = "top-right"    -> <<page_w - wm_w - margin, margin>>
      [] anchor = "bottom-left"  -> <<margin, page_h - wm_h>>
      [] anchor = "bottom-right" -> <<page_w - wm_w - margin, page_h - wm_h>>
      [] anchor = "center"       -> <<(page_w - wm_w) \div 2, (page_h - wm_h) \div 2>>
      [] OTHER                   -> ValueError

anchor_position(anchor, page_w, page_h, wm_w, wm_h, margin) ==
    CASE anchor = "top-left"     -> <<margin, margin>>
      [] anchor = "top-right"    -> <<page_w - wm_w - margin, margin>>
      [] anchor = "bottom-left"  -> <<margin, page_h - wm_h - margin>>
      [] anchor = "bottom-right" -> <<page_w - wm_w - margin, page_h - wm_h - margin>>
      [] anchor = "center"       -> <<(page_w - wm_w) \div 2, (page_h - wm_h) \div 2>>
      [] OTHER                   -> ValueError

(***************************************************************************)
(* boxes_intersect, lines 163-166.  A box is <<x, y, w, h>>.               *)
(***************************************************************************)
\* variant: boxes that only touch count as intersecting
boxes_intersect_touching(a, b) ==
    ~ (  a[1] + a[3] < b[1]
      \/ b[1] + b[3] < a[1]
      \/ a[2] + a[4] < b[2]
      \/ b[2] + b[4] < a[2] )

boxes_intersect(a, b) ==
    ~ (  a[1] + a[3] <= b[1]
      \/ b[1] + b[3] <= a[1]
      \/ a[2] + a[4] <= b[2]
      \/ b[2] + b[4] <= a[2] )

(***************************************************************************)
(* fits_inside, lines 169-177.  Zones whose length is not 4 are skipped.   *)
(***************************************************************************)
\* variant: the zone loop of lines 172-176 left out
fits_inside_bounds_only(x, y, w, h, page_w, page_h, avoid) ==
    ~ (x < 0 \/ y < 0 \/ x + w > page_w \/ y + h > page_h)

fits_inside(x, y, w, h, page_w, page_h, avoid) ==
    IF x < 0 \/ y < 0 \/ x + w > page_w \/ y + h > page_h
    THEN FALSE
    ELSE \A i \in 1..Len(avoid) :
            Len(avoid[i]) # 4
            \/ ~ boxes_intersect(<<x, y, w, h>>,
                                 <<avoid[i][1], avoid[i][2], avoid[i][3], avoid[i][4]>>)

(***************************************************************************)
(* pick_position, lines 180-204.                                           *)
(***************************************************************************)
InSeq(e, s) == \E i \in 1..Len(s) : s[i] = e

\* lines 191-194: the candidates, each appended unless already in the list
RECURSIVE Dedup(_, _)
Dedup(cands, ordered) ==
    IF cands = <<>> THEN ordered
    ELSE Dedup(Tail(cands),
               IF InSeq(Head(cands), ordered) THEN ordered
               ELSE Append(ordered, Head(cands)))

\* variant: bottom-left listed before bottom-right
FallbackOrderSwapped(primary_anchor) ==
    Dedup(<<primary_anchor, "bottom-left", "bottom-right", "top-right", "top-left", "center">>, <<>>)

FallbackOrder(primary_anchor) ==
    Dedup(<<primary_anchor, "bottom-right", "bottom-left", "top-right", "top-left", "center">>, <<>>)

\* lines 197-198: one candidate's coordinate, offsets applied
Candidate(anchor, page_size, wm_size, margin, offset_x, offset_y) ==
    LET base == anchor_position(anchor, page_size[1], page_size[2],
                                wm_size[1], wm_size[2], margin)
    IN  IF base = ValueError THEN ValueError
        ELSE <<base[1] + offset_x, base[2] + offset_y>>

\* variant: the fallback without the offsets
FallbackNoOffset(primary_anchor, page_size, wm_size, margin, offset_x, offset_y) ==
    LET base == anchor_position(primary_anchor, page_size[1], page_size[2],
                                wm_size[1], wm_size[2], margin)
    IN  IF base = ValueError THEN ValueError
        ELSE <<base[1], base[2], primary_anchor, FALSE>>

\* lines 202-204: the unconditional fallback to the requested anchor
Fallback(primary_anchor, page_size, wm_size, margin, offset_x, offset_y) ==
    LET base == anchor_position(primary_anchor, page_size[1], page_size[2],
                                wm_size[1], wm_size[2], margin)
    IN  IF base = ValueError THEN ValueError
        ELSE <<base[1] + offset_x, base[2] + offset_y, primary_anchor, FALSE>>

\* lines 196-200: the loop over the ordered candidates, from position i on
RECURSIVE TryFrom(_, _, _, _, _, _, _, _, _)
TryFrom(i, ordered, primary_anchor, page_size, wm_size, margin, offset_x, offset_y, avoid) ==
    IF i > Len(ordered)
    THEN Fallback(primary_anchor, page_size, wm_size, margin, offset_x, offset_y)
    ELSE LET c == Candidate(ordered[i], page_size, wm_size, margin, offset_x, offset_y)
         IN  IF c = ValueError THEN ValueError
             ELSE IF fits_inside(c[1], c[2], wm_size[1], wm_size[2],
                                 page_size[1], page_size[2], avoid)
                  THEN <<c[1], c[2], ordered[i], TRUE>>
                  ELSE TryFrom(i + 1, ordered, primary_anchor, page_size, wm_size,
                               margin, offset_x, offset_y, avoid)

pick_position(primary_anchor, page_size, wm_size, margin, offset_x, offset_y, avoid) ==
    TryFrom(1, FallbackOrder(primary_anchor), primary_anchor, page_size, wm_size,
            margin, offset_x, offset_y, avoid)

(***************************************************************************)
(* SpecPick: the inputs of one pick_position call.                         *)
(***************************************************************************)
AnchorInputs == ANCHORS \cup {"middle"}         \* "middle" is not an anchor
PageSizes    == { <<MaxPage, MaxPage - 1>> }
\* small watermarks, and one as wide as the page (scale 1.0)
WmSizes      == ((1..MaxWm) \X (1..MaxWm)) \cup { <<MaxPage, 1>> }
Margins      == {0, 1}
Offsets      == {0 - MaxOffset, 0, MaxOffset}
\* well-formed boxes <<x, y, w, h>> and one entry of the wrong arity
ZoneInputs   == { <<x, y, d, d>> : x \in {0, 2}, y \in {0, 2}, d \in {2, MaxPage} }
                \cup { <<0, 0, MaxPage>> }
RECURSIVE SeqsUpTo(_, _)
SeqsUpTo(S, n) ==
    IF n = 0 THEN { <<>> }
    ELSE LET shorter == SeqsUpTo(S, n - 1)
         IN  shorter \cup { Append(s, e) : s \in shorter, e \in S }
ZoneLists    == SeqsUpTo(ZoneInputs, MaxZones)

BatchIdle ==
    /\ args = None /\ env = None /\ files = None /\ dirs = None /\ log = <<>>
    /\ pc = "idle" /\ pages = <<>> /\ idx = 0 /\ run = 0 /\ hist = None
    /\ app = None /\ worker = <<>>

InitPick ==
    /\ call \in [ anchor : AnchorInputs, page_size : PageSizes, wm_size : WmSizes,
                  margin : Margins, offset_x : Offsets, offset_y : Offsets,
                  avoid : ZoneLists ]
    /\ ret = NotCalled
    /\ BatchIdle

PickPosition ==
    /\ ret = NotCalled
    /\ ret' = pick_position(call.anchor, call.page_size, call.wm_size, call.margin,
                            call.offset_x, call.offset_y, call.avoid)
    /\ UNCHANGED <<call, args, env, files, dirs, log, pc, pages, idx, run, hist, app, worker>>

NextPick == PickPosition

SpecPick == InitPick /\ [][NextPick]_vars

(***************************************************************************)
(* Geometry of the claims, stated on pixels: pixel <<px, py>> lies in box  *)
(* <<x, y, w, h>> when x <= px < x + w and y <= py < y + h.                *)
(***************************************************************************)
PixelIn(px, py, b) == b[1] <= px /\ px < b[1] + b[3] /\ b[2] <= py /\ py < b[2] + b[4]
PixelsOf(b) == (b[1]..(b[1] + b[3] - 1)) \X (b[2]..(b[2] + b[4] - 1))
SharePixel(a, b) == \E p \in PixelsOf(a) : PixelIn(p[1], p[2], b)
WithinPage(b, page_size) ==
    \A p \in PixelsOf(b) : PixelIn(p[1], p[2], <<0, 0, page_size[1], page_size[2]>>)
\* the four-component zones of the call
Zones4 == { call.avoid[i] : i \in { j \in 1..Len(call.avoid) : Len(call.avoid[j]) = 4 } }
HitsZone(b) == \E z \in Zones4 : SharePixel(b, z)

Returned   == ret # NotCalled /\ ret # ValueError
PlacedBox  == <<ret[1], ret[2], call.wm_size[1], call.wm_size[2]>>
\* the box a candidate anchor would give, offsets applied
BoxAt(anchor) ==
    LET base == anchor_position(anchor, call.page_size[1], call.page_size[2],
                                call.wm_size[1], call.wm_size[2], call.margin)
    IN  <<base[1] + call.offset_x, base[2] + call.offset_y,
          call.wm_size[1], call.wm_size[2]>>
Feasible(anchor) == WithinPage(BoxAt(anchor), call.page_size) /\ ~ HitsZone(BoxAt(anchor))

\* C6: whenever pick_position returns obeysAvoidZones = TRUE, the returned
\* rectangle lies fully within the page and shares no pixel with any
\* four-component exclusion zone.
C6_TruePlacementIsClean ==
    (Returned /\ ret[4]) =>
        (WithinPage(PlacedBox, call.page_size) /\ ~ HitsZone(PlacedBox))

\* C6 witness: a zone blocked the requested anchor and another anchor was
\* returned with TRUE.
C6_Witness ==
    /\ Returned /\ ret[4] /\ Zones4 # {}
    /\ ret[3] # call.anchor
    /\ HitsZone(BoxAt(call.anchor))

\* C7 (as claimed): the boolean is TRUE exactly when the returned rectangle
\* intersects none of the exclusion zones; in particular TRUE whenever the
\* zone list is empty.
C7_FlagIffNoZoneHit ==
    Returned => (ret[4] <=> ~ HitsZone(PlacedBox))

\* C8: for a recognized requested anchor, if no candidate anchor is feasible,
\* pick_position returns (no exception) the requested anchor, its base
\* coordinate plus the offsets, and FALSE.
C8_FallbackToRequested ==
    (ret # NotCalled /\ call.anchor \in ANCHORS /\ \A a \in ANCHORS : ~ Feasible(a)) =>
        /\ ret # ValueError
        /\ ret = <<BoxAt(call.anchor)[1], BoxAt(call.anchor)[2], call.anchor, FALSE>>

\* C8 witness: nothing is feasible, the fallback lies outside the page and the
\* offsets are not zero.
C8_Witness ==
    /\ Returned /\ call.anchor \in ANCHORS /\ \A a \in ANCHORS : ~ Feasible(a)
    /\ ~ WithinPage(PlacedBox, call.page_size)
    /\ call.offset_x # 0 /\ call.offset_y # 0 /\ call.margin # 0

\* The order of the claim: the requested anchor, then the five fixed anchors
\* without the requested one.
FixedOrder == <<"bottom-right", "bottom-left", "top-right", "top-left", "center">>
ClaimedOrder ==
    <<call.anchor>> \o SelectSeq(FixedOrder, LAMBDA a : a # call.anchor)

\* C9: candidates are tried in the claimed order, each anchor at most once,
\* and a TRUE result is the first feasible candidate of that order.
C9_FirstFeasibleInOrder ==
    /\ FallbackOrder(call.anchor) = ClaimedOrder
    /\ \A i, j \in 1..Len(FallbackOrder(call.anchor)) :
          FallbackOrder(call.anchor)[i] = FallbackOrder(call.anchor)[j] => i = j
    /\ (Returned /\ ret[4]) =>
          \E i \in 1..Len(ClaimedOrder) :
             /\ ret[3] = ClaimedOrder[i]
             /\ <<ret[1], ret[2]>> = <<BoxAt(ClaimedOrder[i])[1], BoxAt(ClaimedOrder[i])[2]>>
             /\ Feasible(ClaimedOrder[i])
             /\ \A j \in 1..(i - 1) : ~ Feasible(ClaimedOrder[j])

\* C9 witness: the first two candidates of the order are infeasible and the
\* third is returned.
C9_Witness ==
    /\ Returned /\ ret[4]
    /\ call.anchor = "center"
    /\ ret[3] = "bottom-left"

\* An exclusion zone fully covers the bottom-right corner: the requested
\* anchor is bottom-right and some zone contains its whole candidate box.
CoversBottomRight ==
    /\ call.anchor = "bottom-right"
    /\ \E z \in Zones4 : WithinPage(<<BoxAt("bottom-right")[1] - z[1],
                                      BoxAt("bottom-right")[2] - z[2],
                                      call.wm_size[1], call.wm_size[2]>>,
                                    <<z[3], z[4]>>)
OtherFour == <<"bottom-left", "top-right", "top-left", "center">>

\* C10 (as claimed): with a zone covering the bottom-right corner and
\* bottom-right requested, the result is one of the other four candidates
\* with TRUE.
C10_AlwaysAnotherCandidate ==
    (ret # NotCalled /\ CoversBottomRight) =>
        /\ Returned /\ ret[4]
        /\ \E i \in 1..4 : /\ ret[3] = OtherFour[i]
                           /\ <<ret[1], ret[2]>> = <<BoxAt(OtherFour[i])[1], BoxAt(OtherFour[i])[2]>>

\* C10 (amended): with a zone covering the bottom-right corner and
\* bottom-right requested, the result is the first feasible one of
\* bottom-left, top-right, top-left, center with TRUE when one of them is
\* feasible, and otherwise bottom-right's own coordinate with FALSE.
C10_AnotherCandidateIfAny ==
    (ret # NotCalled /\ CoversBottomRight) =>
        IF \E i \in 1..4 : Feasible(OtherFour[i])
        THEN \E i \in 1..4 :
                /\ Feasible(OtherFour[i])
                /\ \A j \in 1..(i - 1) : ~ Feasible(OtherFour[j])
                /\ ret = <<BoxAt(OtherFour[i])[1], BoxAt(OtherFour[i])[2], OtherFour[i], TRUE>>
        ELSE ret = <<BoxAt("bottom-right")[1], BoxAt("bottom-right")[2], "bottom-right", FALSE>>

\* C10 witness: the bottom-right corner is covered and another candidate is
\* returned with TRUE.
C10_Witness ==
    /\ Returned /\ CoversBottomRight
    /\ ret[4] /\ ret[3] # "bottom-right"

(***************************************************************************)
(* Strings and paths.  A string is a sequence of one-character strings; a  *)
(* path (pathlib.Path) is a sequence of components, each a string.         *)
(***************************************************************************)
Chars == <<".", "/", "0", "1", "2", "A", "G", "J", "N", "P", "_", "a", "b", "c", "d", "e", "g", "h", "i", "j", "m", "n", "o", "p", "s", "t", "u", "w", "x">>
\* position of a character in Chars, which lists them in code-point order
Ord(c) == CHOOSE i \in 1..Len(Chars) : Chars[i] = c
LowerChar(c) ==
    CASE c = "A" -> "a" [] c = "G" -> "g" [] c = "J" -> "j" [] c = "P" -> "p"
      [] OTHER -> c
Lower(str) == [i \in 1..Len(str) |-> LowerChar(str[i])]
\* s < t as Python compares str
RECURSIVE StrLess(_, _)
StrLess(s, t) ==
    IF t = <<>> THEN FALSE
    ELSE IF s = <<>> THEN TRUE
    ELSE IF Head(s) = Head(t) THEN StrLess(Tail(s), Tail(t))
    ELSE Ord(Head(s)) < Ord(Head(t))

\* str(path): the components joined by "/"
RECURSIVE PathStr(_)
PathStr(path) ==
    IF path = <<>> THEN <<>>
    ELSE IF Len(path) = 1 THEN path[1]
    ELSE path[1] \o <<"/">> \o PathStr(Tail(path))

PathName(path)   == path[Len(path)]                   \* Path.name
PathParent(path) == SubSeq(path, 1, Len(path) - 1)    \* Path.parent
\* str.rfind("."), counted from 1; 0 when there is none
RFindDot(name) ==
    LET dots == { i \in 1..Len(name) : name[i] = "." }
    IN  IF dots = {} THEN 0 ELSE CHOOSE i \in dots : \A j \in dots : j <= i
\* Path.suffix and Path.stem: the last dot splits the name, unless it is the
\* first or the last character
PathSuffix(path) ==
    LET name == PathName(path)
        i    == RFindDot(name)
    IN  IF 1 < i /\ i < Len(name) THEN SubSeq(name, i, Len(name)) ELSE <<>>
PathStem(path) ==
    LET name == PathName(path)
        i    == RFindDot(name)
    IN  IF 1 < i /\ i < Len(name) THEN SubSeq(name, 1, i - 1) ELSE name
IsPrefix(s, t) == Len(s) <= Len(t) /\ SubSeq(t, 1, Len(s)) = s

(***************************************************************************)
(* output_path_for, lines 207-217.                                         *)
(***************************************************************************)
Ext_jpg == <<".", "j", "p", "g">>
Ext_png == <<".", "p", "n", "g">>

\* variant: every output goes straight into the output directory
output_path_for_flat(src, input_root, output_dir, suffix, fmt) ==
    LET rel        == <<PathName(src)>>
        stem       == PathStem(rel) \o suffix
        target_ext == IF fmt = "keep" THEN PathSuffix(rel)
                      ELSE IF fmt = "png" THEN Ext_png ELSE Ext_jpg
    IN  output_dir \o << stem \o target_ext >>

output_path_for(src, input_root, output_dir, suffix, fmt) ==
    LET rel        == IF IsPrefix(input_root, src)                      \* 208-211
                      THEN SubSeq(src, Len(input_root) + 1, Len(src))
                      ELSE <<PathName(src)>>
        stem       == PathStem(rel) \o suffix                           \* 214
        target_ext == IF fmt = "keep" THEN PathSuffix(rel)              \* 215
                      ELSE IF fmt = "png" THEN Ext_png ELSE Ext_jpg
        target_dir == output_dir \o PathParent(rel)                     \* 216
    IN  target_dir \o << stem \o target_ext >>                          \* 217

(***************************************************************************)
(* iter_pages, lines 100-111, on the files of the input tree.              *)
(***************************************************************************)
\* line 105: an extension gets its dot and is lower-cased
NormExt(ext) == IF ext # <<>> /\ ext[1] = "." THEN Lower(ext) ELSE <<".">> \o Lower(ext)

\* lines 106-110: the matching files; rglob descends, iterdir does not
MatchingFiles(tree, folder, extensions, recursive) ==
    { p \in tree :
        /\ IsPrefix(folder, p) /\ Len(p) > Len(folder)
        /\ recursive \/ Len(p) = Len(folder) + 1
        /\ Lower(PathSuffix(p)) \in { NormExt(e) : e \in extensions } }

\* line 111: every order sorted() can return; files whose lower-cased path
\* strings are equal keep the order the directory scan gave them
SortedOrders(paths) ==
    { ps \in [1..Cardinality(paths) -> paths] :
        /\ \A i, j \in 1..Cardinality(paths) : ps[i] = ps[j] => i = j
        /\ \A i \in 1..(Cardinality(paths) - 1) :
              ~ StrLess(Lower(PathStr(ps[i + 1])), Lower(PathStr(ps[i]))) }

\* pages[: n], line 311
PySlicePrefix(seq, n) ==
    IF n >= 0 THEN SubSeq(seq, 1, IF n < Len(seq) THEN n ELSE Len(seq))
    ELSE SubSeq(seq, 1, IF Len(seq) + n > 0 THEN Len(seq) + n ELSE 0)

(***************************************************************************)
(* JSON values of the override file: a number, a string, a list, an object *)
(* (dict) or null, each a pair of its Python type and its content: x[1] is *)
(* the type and x[2] the content.  A dict is a function from its keys to   *)
(* values; the override table maps file names (strings as sequences of     *)
(* characters) to values.                                                  *)
(***************************************************************************)
JNum(n)    == <<"int", n>>
JStr(str)  == <<"str", str>>
JList(seq) == <<"list", seq>>
JDict(d)   == <<"dict", d>>
JNull      == <<"NoneType", 0>>
EmptyDict  == <<>>                                   \* {}
IsDict(x)  == x[1] = "dict"                           \* isinstance(x, dict)
IsList(x)  == x[1] = "list"                           \* isinstance(x, (list, tuple))
\* d1.update(d2)
Update(d1, d2) ==
    [k \in (DOMAIN d1) \cup (DOMAIN d2) |-> IF k \in DOMAIN d2 THEN d2[k] ELSE d1[k]]
\* d.get(key, default)
Get(d, key, default) == IF key \in DOMAIN d THEN d[key] ELSE default

Star == <<"*">>

(***************************************************************************)
(* The batch pipeline.  The input tree holds some of three pages and a     *)
(* file that is no image; each page is readable, undecodable (Image.open   *)
(* raises) or unwritable (canvas.save raises for its output).              *)
(***************************************************************************)
MaxSample == 1      \* largest --sample value

InputRoot  == << <<"i", "n">> >>
OutputRoot == << <<"o", "u", "t">> >>
Page_a_jpg == InputRoot \o << <<"c", "h", "1">>, <<"a", ".", "j", "p", "g">> >>
Page_a_png == InputRoot \o << <<"c", "h", "1">>, <<"a", ".", "p", "n", "g">> >>
Page_b_JPG == InputRoot \o << <<"b", ".", "J", "P", "G">> >>
Notes_txt  == InputRoot \o << <<"c", "h", "1">>, <<"n", ".", "t", "x", "t">> >>
PageFiles  == {Page_a_jpg, Page_a_png, Page_b_JPG}
Out_a_jpg  == OutputRoot \o << <<"c", "h", "1">>, <<"a", ".", "j", "p", "g">> >>

\* --extensions default, line 41
DefaultExtensions ==
    { <<".", "j", "p", "g">>, <<".", "j", "p", "e", "g">>, <<".", "p", "n", "g">> }

\* --sample: <<>> is None (not given), <<n>> is the integer n
Samples == { <<>> } \cup { <<n>> : n \in (0 - 1)..MaxSample }

\* the object in the --avoid-json file, when one is given
BatchOverrides == Star :> JDict([anchor |-> JStr("top-left")])

\* content of an output file: the page it was composed from and where the
\* watermark went; OldContent is a file that was there before the first run
OldContent == [src |-> <<>>, pos |-> <<>>]

InitBatch ==
    /\ args \in [ input : {InputRoot}, output : {OutputRoot},
                  extensions : {DefaultExtensions}, recursive : BOOLEAN,
                  anchor : {"bottom-right"}, offset_x : {0}, offset_y : {0},
                  margin : {1}, scale : {50}, opacity : {60}, format : {"jpeg", "keep"},
                  suffix : { <<>> }, overwrite : BOOLEAN, dry_run : BOOLEAN,
                  sample : Samples ]
    /\ \E st \in [PageFiles -> {"absent", "ok", "undecodable", "unwritable"}],
          fatal \in { <<TRUE, TRUE, None>>, <<TRUE, TRUE, "object">>,
                      <<FALSE, TRUE, None>>, <<TRUE, FALSE, None>>,
                      <<TRUE, TRUE, "array">>, <<FALSE, FALSE, "array">> },
          old \in { {}, {Out_a_jpg} } :
          env = [ wm_is_file   |-> fatal[1],
                  input_is_dir |-> fatal[2],
                  avoid_json   |-> fatal[3],
                  overrides    |-> BatchOverrides,
                  wm_size      |-> <<2, 1>>,
                  tree         |-> { f \in PageFiles : st[f] # "absent" } \cup {Notes_txt},
                  undecodable  |-> { f \in PageFiles : st[f] = "undecodable" },
                  unwritable   |-> { f \in PageFiles : st[f] = "unwritable" },
                  files        |-> [ o \in old |-> OldContent ],
                  dirs         |-> IF old = {} THEN {} ELSE {OutputRoot, PathParent(Out_a_jpg)} ]
    /\ files = env.files
    /\ dirs = env.dirs
    /\ log = <<>>
    /\ pc = "start"
    /\ pages = <<>>
    /\ idx = 0
    /\ run = 1
    /\ hist = [files |-> env.files, dirs |-> env.dirs, log |-> <<>>, pc |-> "start",
                pages |-> <<>>, idx |-> 0]
    /\ call = None
    /\ ret = NotCalled
    /\ app = None /\ worker = <<>>

(***************************************************************************)
(* resize_watermark, lines 131-136, on sizes.  scale is in percent.  int() *)
(* truncates; the quotients are taken exactly, as the floating-point       *)
(* products of lines 133-135 are on the sizes and scales used here.        *)
(***************************************************************************)
Max(a, b) == IF a >= b THEN a ELSE b
Min(a, b) == IF a <= b THEN a ELSE b
resize_watermark(base_size, page_w, page_h, scale) ==
    LET clamped  == Max(1, Min(scale, 100))
        target_w == Max(1, (page_w * clamped) \div 100)
        target_h == Max(1, (base_size[2] * target_w) \div base_size[1])
    IN  <<target_w, target_h>>

\* the pixel size Image.open reads from a page
PageSizeOf(page_path) == <<MaxPage, MaxPage - 1>>

(***************************************************************************)
(* load_overrides, lines 114-120, when it returns: no file gives the empty *)
(* table, a file holding an object gives that object.                      *)
(***************************************************************************)
load_overrides(e) == IF e.avoid_json = None THEN EmptyDict ELSE e.overrides

(***************************************************************************)
(* merge_overrides, lines 123-128.                                         *)
(***************************************************************************)
\* variant: a later entry replaces the earlier ones whole
merge_overrides_replace(name, overrides) ==
    LET step(merged, key) ==
            IF key \in DOMAIN overrides /\ IsDict(overrides[key])
            THEN overrides[key][2] ELSE merged
    IN  step(step(step(EmptyDict, Star), name), Lower(name))

merge_overrides(name, overrides) ==
    LET step(merged, key) ==                                            \* 125-127
            IF key \in DOMAIN overrides /\ IsDict(overrides[key])
            THEN Update(merged, overrides[key][2]) ELSE merged
    IN  step(step(step(EmptyDict, Star), name), Lower(name))            \* 124-128

(***************************************************************************)
(* apply_opacity, lines 139-146, on one RGBA pixel <<r, g, b, a>>.         *)
(* opacity is in thousandths; int() truncates.  The products a * opacity   *)
(* of line 144 are taken exactly, as the floating-point ones are for every *)
(* a in 0..255 at the opacities used here.                                 *)
(***************************************************************************)
apply_opacity(pixel, opacity) ==
    LET clamped == Max(0, Min(opacity, 1000))                           \* 140
    IN  IF clamped >= 999 THEN pixel                                    \* 141-142
        ELSE <<pixel[1], pixel[2], pixel[3],
               (pixel[4] * clamped) \div 1000>>                         \* 143-146

(***************************************************************************)
(* int() and float() on a JSON value: a number converts, a string converts *)
(* when it is a numeral, anything else raises.  The strings of the model   *)
(* are one digit or no numeral at all; scale and opacity are in percent.   *)
(***************************************************************************)
Digits == [d \in {"0", "1", "2"} |-> CASE d = "0" -> 0 [] d = "1" -> 1 [] d = "2" -> 2]
CanNum(x) == x[1] = "int" \/ (x[1] = "str" /\ x[2] \in DOMAIN Digits)
NumOf(x)  == IF x[1] = "int" THEN x[2] ELSE Digits[x[2]]

(***************************************************************************)
(* compose_watermarked_image, lines 230-243: the settings of one page,     *)
(* from the merged override and the run's arguments.                       *)
(***************************************************************************)
\* line 242: the entries of the avoid list that are kept
IsZone(zone) == IsList(zone) /\ Len(zone[2]) = 4
\* line 232: the offset of a page whose override has none
default_offset_zero(a) == JList(<<JNum(0), JNum(0)>>)        \* variant: no offset
default_offset(a) == JList(<<JNum(a.offset_x), JNum(a.offset_y)>>)

compose_settings(merged, a) ==
    LET anchor      == Get(merged, "anchor", JStr(a.anchor))                       \* 231
        offset      == Get(merged, "offset", default_offset(a))                    \* 232
        has_x       == IsList(offset) /\ Len(offset[2]) >= 1                        \* 233
        has_y       == IsList(offset) /\ Len(offset[2]) >= 2                        \* 234
        margin      == Get(merged, "margin", JNum(a.margin))                       \* 235
        scale       == Get(merged, "scale", JNum(a.scale))                         \* 236
        opacity     == Get(merged, "opacity", JNum(a.opacity))                     \* 237
        avoid_zones == Get(merged, "avoid", JList(<<>>))                           \* 238
        kept        == IF IsList(avoid_zones)                                      \* 240-242
                       THEN SelectSeq(avoid_zones[2], IsZone) ELSE <<>>
        converts    == /\ has_x => CanNum(offset[2][1])
                       /\ has_y => CanNum(offset[2][2])
                       /\ CanNum(margin) /\ CanNum(scale) /\ CanNum(opacity)
                       /\ \A i \in 1..Len(kept) : \A j \in 1..4 : CanNum(kept[i][2][j])
    IN  IF ~ converts THEN [raised |-> TRUE]
        ELSE [ raised   |-> FALSE,
               anchor   |-> IF anchor[1] = "str" THEN anchor[2] ELSE None,
               offset_x |-> IF has_x THEN NumOf(offset[2][1]) ELSE a.offset_x,
               offset_y |-> IF has_y THEN NumOf(offset[2][2]) ELSE a.offset_y,
               margin   |-> NumOf(margin),
               scale    |-> NumOf(scale),
               opacity  |-> NumOf(opacity),
               avoid    |-> [ i \in 1..Len(kept) |->                               \* 243
                                <<NumOf(kept[i][2][1]), NumOf(kept[i][2][2]),
                                  NumOf(kept[i][2][3]), NumOf(kept[i][2][4])>> ] ]

(***************************************************************************)
(* compose_watermarked_image, lines 220-257.  The result holds the canvas, *)
(* the fields of the info line and the settings the page was composed      *)
(* with.                                                                   *)
(***************************************************************************)
compose_watermarked_image(page_path, watermark_base, a, overrides, e) ==
    IF page_path \in e.undecodable
    THEN [raised |-> TRUE]                                              \* 226
    ELSE LET page_size == PageSizeOf(page_path)                         \* 228
             merged    == merge_overrides(PathName(page_path), overrides) \* 230
             s         == compose_settings(merged, a)                   \* 231-243
         IN  IF s.raised THEN [raised |-> TRUE]
             ELSE LET wm_size == resize_watermark(watermark_base, page_size[1],
                                                  page_size[2], s.scale)    \* 245
                      placed  == pick_position(s.anchor, page_size, wm_size, s.margin,
                                               s.offset_x, s.offset_y, s.avoid) \* 247
                  IN  IF placed = ValueError THEN [raised |-> TRUE]
                      ELSE [ raised   |-> FALSE,
                             canvas   |-> [src |-> page_path, pos |-> <<placed[1], placed[2]>>],
                             info     |-> [ name |-> PathName(page_path), anchor |-> placed[3],
                                            pos |-> <<placed[1], placed[2]>>, size |-> wm_size,
                                            avoid_ok |-> placed[4],
                                            avoid_zones |-> Len(s.avoid) ],
                             settings |-> s ]

(***************************************************************************)
(* process_file, lines 260-290.  fs and ds are the output files and        *)
(* directories on disk when it is called; the result says whether an       *)
(* exception left the function, what is on disk afterwards and the lines   *)
(* handed to log.  A save that raises leaves no file behind, and an        *)
(* unwritable page fails the same way in every run.                        *)
(***************************************************************************)
NoInfo == [ name |-> <<>>, anchor |-> "", pos |-> <<>>, size |-> <<>>,
            avoid_ok |-> FALSE, avoid_zones |-> 0 ]
\* variant: a dry run reports its pages as written
DryRunLineAsWrote(info) == [kind |-> "[wrote]", path |-> <<>>, info |-> info]
DryRunLine(info)      == [kind |-> "[dry-run]", path |-> <<>>, info |-> info]          \* 270
SkipLine(out_path)    == [kind |-> "[skip exists]", path |-> <<PathName(out_path)>>,
                          info |-> NoInfo]                                           \* 278
WroteLine(out_path, info) == [kind |-> "[wrote]", path |-> out_path, info |-> info]  \* 290

\* mkdir(parents=True, exist_ok=True): the directory and its ancestors
MkdirParents(ds, dir) == ds \cup { SubSeq(dir, 1, k) : k \in 1..Len(dir) }

\* variant: the dry-run test left out
IsDryRunIgnored(a) == FALSE
\* line 269
IsDryRun(a) == a.dry_run

\* variant: the existence test left out
SkipsExistingNever(out_path, fs, a) == FALSE
\* line 277
SkipsExisting(out_path, fs, a) == out_path \in DOMAIN fs /\ ~ a.overwrite

process_file(page_path, watermark_base, a, input_root, e, fs, ds) ==
    LET composed == compose_watermarked_image(page_path, watermark_base, a,
                                              load_overrides(e), e)     \* 268
    IN  IF composed.raised
        THEN [raised |-> TRUE, files |-> fs, dirs |-> ds, lines |-> <<>>]
        ELSE IF IsDryRun(a)                                                       \* 269-271
        THEN [raised |-> FALSE, files |-> fs, dirs |-> ds,
              lines |-> <<DryRunLine(composed.info)>>]
        ELSE LET out_path == output_path_for(page_path, input_root, a.output,
                                             a.suffix, a.format)                  \* 275
                 made     == MkdirParents(MkdirParents(ds, a.output),
                                          PathParent(out_path))                   \* 274, 276
             IN  IF SkipsExisting(out_path, fs, a)                                \* 277-279
                 THEN [raised |-> FALSE, files |-> fs, dirs |-> made,
                       lines |-> <<SkipLine(out_path)>>]
                 ELSE IF page_path \in e.unwritable                               \* 289 raises
                 THEN [raised |-> TRUE, files |-> fs, dirs |-> made, lines |-> <<>>]
                 ELSE [raised |-> FALSE,
                       files  |-> [ o \in DOMAIN fs \cup {out_path} |->
                                      IF o = out_path THEN composed.canvas ELSE fs[o] ],
                       dirs   |-> made,
                       lines  |-> <<WroteLine(out_path, composed.info)>>]         \* 289-290

(***************************************************************************)
(* The objects a run shares between its pages, after process_file has     *)
(* handled one: the arguments, the override table and the watermark.       *)
(* merge_overrides writes (update, line 127) to the dict it started from;  *)
(* resize (line 135) and copy (lines 143, 251) give new images, and        *)
(* putalpha and paste write to these; no attribute of args is assigned.    *)
(***************************************************************************)
\* variant: merge_overrides starts from the entry under "*" itself
merged_object_is_star_entry(overrides) ==
    IF Star \in DOMAIN overrides /\ IsDict(overrides[Star]) THEN "star entry" ELSE "new dict"
\* line 124: merged = {}
merged_object(overrides) == "new dict"

overrides_after_merge(name, overrides) ==
    IF merged_object(overrides) = "star entry"
    THEN [overrides EXCEPT ![Star] = JDict(merge_overrides(name, overrides))]
    ELSE overrides

shared_after(page_path, watermark_base, a, overrides, e) ==
    [ a         |-> a,
      overrides |-> IF page_path \in e.undecodable THEN overrides          \* 226 raises
                    ELSE overrides_after_merge(PathName(page_path), overrides), \* 230
      wm        |-> watermark_base ]

(***************************************************************************)
(* run_with_args, lines 293-316.                                           *)
(***************************************************************************)
\* the SystemExit raised before the pages are selected: load_overrides (118),
\* the watermark test (297), iter_pages (101)
FatalBeforePages(a, e) ==
    e.avoid_json = "array" \/ ~ e.wm_is_file \/ ~ e.input_is_dir

\* lines 310-311: "if args.sample" is false for None and for 0
SelectPages(sorted, sample) ==
    IF sample # <<>> /\ sample[1] # 0 THEN PySlicePrefix(sorted, sample[1]) ELSE sorted

\* variant: the test for an empty list left out
EmptyIsFatalNever(selected) == FALSE
\* lines 312-313
EmptyIsFatal(selected) == selected = <<>>

\* lines 302-309: the pages kept for limit_dir (<<>> is None, <<dir>> a
\* directory); the paths are absolute and without links, so resolve()
\* gives them back, and the test is on their strings
limit_filter(sorted, limit_dir) ==
    IF limit_dir = <<>> THEN sorted
    ELSE LET Kept(page) == IsPrefix(PathStr(limit_dir[1]), PathStr(page))     \* 306
         IN  SelectSeq(sorted, Kept)

\* lines 294-313: everything before the loop
Start ==
    /\ pc = "start"
    /\ IF FatalBeforePages(args, env)
       THEN pc' = "exit" /\ pages' = <<>> /\ idx' = 0
       ELSE \E sorted \in SortedOrders(MatchingFiles(env.tree, args.input,
                                                     args.extensions, args.recursive)) :
               LET selected == SelectPages(limit_filter(sorted, <<>>), args.sample)
               IN  /\ pages' = selected
                   /\ IF EmptyIsFatal(selected)
                      THEN pc' = "exit" /\ idx' = 0
                      ELSE idx' = 1 /\ pc' = IF selected = <<>> THEN "done" ELSE "loop"
    /\ UNCHANGED <<call, ret, args, env, files, dirs, log, run, hist, app, worker>>

\* lines 315-316: one turn of the loop; an exception of process_file leaves
\* run_with_args, which has no handler
ProcessFile ==
    /\ pc = "loop"
    /\ LET r == process_file(pages[idx], env.wm_size, args, args.input, env, files, dirs)
       IN  /\ files' = r.files
           /\ dirs' = r.dirs
           /\ log' = log \o r.lines
           /\ IF r.raised
              THEN pc' = "raised" /\ idx' = idx
              ELSE idx' = idx + 1 /\ pc' = IF idx = Len(pages) THEN "done" ELSE "loop"
    /\ UNCHANGED <<call, ret, args, env, pages, run, hist, app, worker>>

\* main, lines 319-321, invoked a second time with the same arguments on the
\* same trees, once the first run has ended
Rerun ==
    /\ pc \in {"done", "exit", "raised"}
    /\ run = 1
    /\ run' = run + 1
    /\ hist' = [files |-> files, dirs |-> dirs, log |-> log, pc |-> pc,
                pages |-> pages, idx |-> idx]
    /\ pc' = "start" /\ log' = <<>> /\ pages' = <<>> /\ idx' = 0
    /\ UNCHANGED <<call, ret, args, env, files, dirs, app, worker>>

Next == Start \/ ProcessFile \/ Rerun

Spec == InitBatch /\ [][Next]_vars

(***************************************************************************)
(* Claims about the batch run.                                             *)
(***************************************************************************)
\* the pages the run works on, whatever order sorted() gave equal keys
NoPageMatched ==
    \A sorted \in SortedOrders(MatchingFiles(env.tree, args.input,
                                             args.extensions, args.recursive)) :
        SelectPages(sorted, args.sample) = <<>>
OutOf(page_path) ==
    output_path_for(page_path, args.input, args.output, args.suffix, args.format)
InLoop == pc \in {"loop", "done", "raised"}

\* C1 (as claimed): a failure while processing one page is caught and logged
\* with the page's filename, every later page is still processed, and the
\* run is never aborted by a per-file failure.
C1_FailureIsolation ==
    /\ pc # "raised"
    /\ InLoop => /\ Len(log) = idx - 1
                 /\ \A i \in 1..(idx - 1) :
                       pages[i] \in env.undecodable \cup env.unwritable
                          => log[i].kind = "[error]"

\* C2: with the watermark file missing, the input root not a directory, the
\* override JSON not an object, or no page left after filtering and
\* sampling, the run never enters the loop: nothing is logged and the
\* output files and directories stay as they were.
C2_FatalAbortsBeforeFiles ==
    (  ~ env.wm_is_file \/ ~ env.input_is_dir \/ env.avoid_json = "array"
    \/ NoPageMatched ) =>
        /\ pc \in {"start", "exit"}
        /\ idx = 0
        /\ log = <<>>
        /\ files = env.files
        /\ dirs = env.dirs

\* C2 witness: the run has exited because sampling left no page, although
\* the input tree holds a matching page.
C2_Witness ==
    /\ pc = "exit"
    /\ env.wm_is_file /\ env.input_is_dir /\ env.avoid_json # "array"
    /\ MatchingFiles(env.tree, args.input, args.extensions, args.recursive) # {}

\* C3: with dry_run set, no output directory and no output file is ever
\* made, and every page handled so far has exactly one line, a "[dry-run]"
\* line carrying its name; a run that ends normally has one per page.
C3_DryRunWritesNothing ==
    args.dry_run =>
        /\ files = env.files
        /\ dirs = env.dirs
        /\ InLoop => /\ Len(log) = idx - 1
                     /\ \A i \in 1..(idx - 1) :
                           /\ log[i].kind = "[dry-run]"
                           /\ log[i].info.name = PathName(pages[i])
        /\ pc = "done" => Len(log) = Len(pages)

\* C3 witness: a dry run over at least two pages has ended normally.
C3_Witness ==
    /\ args.dry_run /\ pc = "done" /\ Len(pages) >= 2 /\ Len(log) = Len(pages)

\* C4: in the second of two runs with the same configuration, overwrite
\* unset and the inputs unchanged, nothing is written: no "[wrote]" line,
\* the output files and directories are those the first run left, and in a
\* writing run that ends normally every page gets its "[skip exists]" line.
C4_SecondRunWritesNothing ==
    (run = 2 /\ ~ args.overwrite) =>
        /\ files = hist.files
        /\ dirs = hist.dirs
        /\ \A i \in 1..Len(log) : log[i].kind # "[wrote]"
        /\ (pc = "done" /\ ~ args.dry_run) =>
              /\ Len(log) = Len(pages)
              /\ \A i \in 1..Len(pages) : log[i] = SkipLine(OutOf(pages[i]))

\* C4 witness: the first run wrote files, and the second run has gone
\* through two or more pages, skipping each.
C4_Witness ==
    /\ run = 2 /\ pc = "done" /\ ~ args.overwrite /\ ~ args.dry_run
    /\ Len(pages) >= 2
    /\ hist.files # env.files
    /\ \A i \in 1..Len(pages) : log[i].kind = "[skip exists]"

\* C5: when process_file reaches a page whose output path exists and
\* overwrite is unset, that step leaves every output file as it was, logs
\* one skip-exists line naming the output file, raises nothing, and the loop
\* goes on to the next page.
C5_SkipLeavesFileUnchanged ==
    [][ ( /\ pc = "loop"
          /\ ~ args.dry_run
          /\ pages[idx] \notin env.undecodable
          /\ OutOf(pages[idx]) \in DOMAIN files
          /\ ~ args.overwrite )
        => ( /\ files' = files
             /\ log' = Append(log, SkipLine(OutOf(pages[idx])))
             /\ pc' = (IF idx < Len(pages) THEN "loop" ELSE "done")
             /\ idx' = idx + 1 ) ]_vars

\* C5 witness: a page whose output was there before the run has been
\* skipped, the old file is still in place, and the loop continues.
C5_Witness ==
    /\ run = 1 /\ pc = "loop" /\ idx >= 2
    /\ log[Len(log)] = SkipLine(Out_a_jpg)
    /\ files[Out_a_jpg] = OldContent

(***************************************************************************)
(* SpecFn: one call of one of the module's functions.  call names the      *)
(* function (fn) and holds its arguments; ret is NotCalled until the call  *)
(* has returned, then Ret(value), or Raised when an exception left it.     *)
(***************************************************************************)
Ret(v) == <<"returned", v>>
Raised == <<"raised", "exception", "">>
HasReturned(fn) == call.fn = fn /\ ret # NotCalled /\ ret # Raised

\* file names and override entries of the merge_overrides calls
Name_Page01 == <<"P", "a", "g", "e", "0", "1", ".", "j", "p", "g">>
Name_page01 == <<"p", "a", "g", "e", "0", "1", ".", "j", "p", "g">>
Name_a      == <<"a", ".", "j", "p", "g">>
MergeNames  == {Name_Page01, Name_a}
MergeKeys   == {Star, Name_Page01, Name_page01, Name_a}
MergeEntries ==
    { JDict([margin |-> JNum(10)]),
      JDict([margin |-> JNum(20)]),
      JDict([anchor |-> JStr("top-left"), margin |-> JNum(10)]),
      JDict([scale |-> JNum(50)]),
      JList(<<JNum(1)>>) }                           \* an entry that is no object
MergeTables == UNION { [K -> MergeEntries] : K \in SUBSET MergeKeys }
MergeCalls  == [fn : {"merge_overrides"}, name : MergeNames, overrides : MergeTables]

MergeOverrides ==
    /\ call.fn = "merge_overrides" /\ ret = NotCalled
    /\ ret' = Ret(merge_overrides(call.name, call.overrides))
    /\ UNCHANGED <<call, args, env, files, dirs, log, pc, pages, idx, run, hist, app, worker>>

\* the overrides of the compose_watermarked_image calls: every field is
\* absent or has one of a few values, well-formed or not
Zone_a == JList(<<JNum(0), JNum(0), JNum(2), JNum(2)>>)
Zone_b == JList(<<JNum(2), JNum(1), JNum(2), JNum(2)>>)
Zone_short  == JList(<<JNum(0), JNum(0), JNum(2)>>)             \* three components
Zone_str    == JStr("0,0,2,2")                                  \* no list
Zone_digits == JList(<<JStr("0"), JStr("0"), JStr("2"), JStr("2")>>)
Zone_word   == JList(<<JNum(0), JNum(0), JStr("x"), JNum(2)>>)  \* "x" is no number
Zone_null   == JList(<<JNum(0), JNum(0), JNull, JNum(2)>>)
FieldValues ==
    [ anchor  |-> { JStr("top-left"), JStr("middle") },
      offset  |-> { JList(<<JNum(0 - 1), JNum(0)>>), JList(<<JNum(0)>>), JNum(0) },
      margin  |-> { JNum(0), JStr("2"), JStr("x") },
      scale   |-> { JNum(100) },
      opacity |-> { JNum(100) },
      avoid   |-> { JList(<<Zone_a>>), JList(<<Zone_a, Zone_b>>), JList(<<Zone_short, Zone_b>>),
                    JList(<<Zone_str, Zone_a>>), JList(<<Zone_digits>>),
                    JList(<<Zone_b, Zone_word>>), JList(<<Zone_null>>), JNum(1) } ]
ComposeEntries ==
    { [f \in { g \in DOMAIN FieldValues : c[g] # <<>> } |-> c[f][1]] :
        c \in [ anchor  : {<<>>} \cup { <<x>> : x \in FieldValues.anchor },
                offset  : {<<>>} \cup { <<x>> : x \in FieldValues.offset },
                margin  : {<<>>} \cup { <<x>> : x \in FieldValues.margin },
                scale   : {<<>>} \cup { <<x>> : x \in FieldValues.scale },
                opacity : {<<>>} \cup { <<x>> : x \in FieldValues.opacity },
                avoid   : {<<>>} \cup { <<x>> : x \in FieldValues.avoid } ] }
\* the run's arguments compose_watermarked_image reads
ComposeArgs == [ anchor |-> "bottom-right", offset_x |-> 1, offset_y |-> 0 - 1,
                 margin |-> 1, scale |-> 50, opacity |-> 60 ]
ComposeCalls ==
    [ fn : {"compose_watermarked_image"}, page : {Page_a_jpg}, wm : { <<2, 1>> },
      a : {ComposeArgs}, overrides : { Star :> JDict(d) : d \in ComposeEntries } ]

Compose ==
    /\ call.fn = "compose_watermarked_image" /\ ret = NotCalled
    /\ LET r == compose_watermarked_image(call.page, call.wm, call.a, call.overrides,
                                          [undecodable |-> {}])
       IN  ret' = IF r.raised THEN Raised ELSE Ret(r)
    /\ UNCHANGED <<call, args, env, files, dirs, log, pc, pages, idx, run, hist, app, worker>>

\* the anchor_position calls: pages of odd and even size, watermarks
\* smaller and larger than the page, and the call of the documentation
AnchorCall_C15 ==
    [ fn |-> "anchor_position", anchor |-> "bottom-right", page_w |-> 1000,
      page_h |-> 1400, wm_w |-> 200, wm_h |-> 100, margin |-> 16 ]
AnchorCalls ==
    [ fn : {"anchor_position"}, anchor : AnchorInputs,
      page_w : {MaxPage, MaxPage + 1}, page_h : {MaxPage - 1, MaxPage},
      wm_w : (1..MaxWm) \cup {MaxPage + 2}, wm_h : 1..MaxWm, margin : 0..MaxWm ]
    \cup {AnchorCall_C15}

AnchorPosition ==
    /\ call.fn = "anchor_position" /\ ret = NotCalled
    /\ LET r == anchor_position(call.anchor, call.page_w, call.page_h,
                                call.wm_w, call.wm_h, call.margin)
       IN  ret' = IF r = ValueError THEN Raised ELSE Ret(r)
    /\ UNCHANGED <<call, args, env, files, dirs, log, pc, pages, idx, run, hist, app, worker>>

\* the boxes_intersect calls: two boxes of positive width and height,
\* apart, touching, overlapping or nested; the call is made both ways round
BoxInputs  == { <<x, y, w, h>> : x \in (0 - 1)..MaxWm, y \in (0 - 1)..MaxWm,
                                 w \in 1..MaxWm, h \in 1..MaxWm }
BoxCalls   == [ fn : {"boxes_intersect"}, a : BoxInputs, b : BoxInputs ]

BoxesIntersect ==
    /\ call.fn = "boxes_intersect" /\ ret = NotCalled
    /\ ret' = Ret(<<boxes_intersect(call.a, call.b), boxes_intersect(call.b, call.a)>>)
    /\ UNCHANGED <<call, args, env, files, dirs, log, pc, pages, idx, run, hist, app, worker>>

\* the output_path_for calls.  The source path is given in parts: the
\* directory it is under (the input root or another one), the directories
\* below that, and the stem and extension of the file name.
Dir_ch1    == <<"c", "h", "1">>
Dir_sub    == <<"s", "u", "b">>
OtherRoot  == << <<"i", "n", "2">> >>          \* "in2": no directory under "in"
NameParts  ==
    { [stem |-> <<"p", "0", "1">>, ext |-> <<".", "j", "p", "g">>],
      [stem |-> <<"a", ".", "b">>, ext |-> <<".", "P", "N", "G">>],
      [stem |-> <<"n", "o", "e", "x", "t">>, ext |-> <<>>],
      [stem |-> <<".", "h", "i", "d", "d", "e", "n">>, ext |-> <<>>] }
Suffix_wm  == <<"_", "w", "m">>
Formats    == {"jpeg", "png", "keep"}            \* --format choices, line 82
PathCalls  ==
    [ fn : {"output_path_for"}, under : {InputRoot, OtherRoot},
      below : { <<>>, <<Dir_ch1>>, <<Dir_ch1, Dir_sub>> }, name : NameParts,
      input_root : {InputRoot}, output_dir : {OutputRoot},
      suffix : { <<>>, Suffix_wm }, fmt : Formats ]
\* the src argument of a call
SrcOf(c)   == c.under \o c.below \o << c.name.stem \o c.name.ext >>

OutputPathFor ==
    /\ call.fn = "output_path_for" /\ ret = NotCalled
    /\ ret' = Ret(output_path_for(SrcOf(call), call.input_root, call.output_dir,
                                  call.suffix, call.fmt))
    /\ UNCHANGED <<call, args, env, files, dirs, log, pc, pages, idx, run, hist, app, worker>>

\* the iter_pages calls: the regular files on disk are some of seven, at
\* three depths under the input root and outside it, two of them with names
\* that differ in letter case only; the extensions come with and without
\* dot, in lower and upper case
Page_A_jpg  == InputRoot \o << Dir_ch1, <<"A", ".", "j", "p", "g">> >>
Page_c_jpeg == InputRoot \o << Dir_ch1, Dir_sub, <<"c", ".", "j", "p", "e", "g">> >>
Page_other  == OtherRoot \o << <<"a", ".", "j", "p", "g">> >>
DiskFiles   == {Page_b_JPG, Page_a_jpg, Page_A_jpg, Page_a_png, Page_c_jpeg, Notes_txt,
                Page_other}
ExtensionLists ==
    { DefaultExtensions, { <<"J", "P", "G">> }, { <<".", "P", "N", "G">>, <<"t", "x", "t">> } }
IterCalls ==
    [ fn : {"iter_pages"}, tree : SUBSET DiskFiles, folder : {InputRoot},
      extensions : ExtensionLists, recursive : BOOLEAN ]

\* iter_pages, lines 100-111, on a folder that is a directory
IterPages ==
    /\ call.fn = "iter_pages" /\ ret = NotCalled
    /\ \E sorted \in SortedOrders(MatchingFiles(call.tree, call.folder,
                                                 call.extensions, call.recursive)) :
          ret' = Ret(sorted)
    /\ UNCHANGED <<call, args, env, files, dirs, log, pc, pages, idx, run, hist, app, worker>>

\* the resize_watermark calls: scales below, in and above [0.01, 1.0], in
\* percent, on pages up to MaxPage + 3 pixels wide
ScaleInputs == {0, 25, 50, 75, 100, 150}
BaseSizes   == { <<2, 1>>, <<3, 2>>, <<1, 3>> }
ResizeCalls ==
    [ fn : {"resize_watermark"}, base : BaseSizes, page_w : 1..(MaxPage + 3),
      page_h : {MaxPage}, scale : ScaleInputs ]

ResizeWatermark ==
    /\ call.fn = "resize_watermark" /\ ret = NotCalled
    /\ ret' = Ret(resize_watermark(call.base, call.page_w, call.page_h, call.scale))
    /\ UNCHANGED <<call, args, env, files, dirs, log, pc, pages, idx, run, hist, app, worker>>

\* the apply_opacity calls: one pixel of every alpha, at opacities below,
\* in and above [0, 1]
OpacityInputs == {0 - 100, 0, 250, 500, 600, 998, 999, 1000, 1500}
OpacityCalls  ==
    [ fn : {"apply_opacity"}, pixel : { <<10, 200, 255, a>> : a \in 0..255 },
      opacity : OpacityInputs ]

ApplyOpacity ==
    /\ call.fn = "apply_opacity" /\ ret = NotCalled
    /\ ret' = Ret(apply_opacity(call.pixel, call.opacity))
    /\ UNCHANGED <<call, args, env, files, dirs, log, pc, pages, idx, run, hist, app, worker>>

\* the process_file calls: a page with or without an entry of its own in
\* the override table, readable or not, its output on disk or not
ProcessTables ==
    { EmptyDict,
      Star :> JDict([margin |-> JNum(0)]),
      Name_a :> JDict([anchor |-> JStr("top-left")]),
      (Star :> JDict([margin |-> JNum(0)])) @@ (Name_a :> JDict([anchor |-> JStr("top-left")])) }
ProcessArgs ==
    [ input : {InputRoot}, output : {OutputRoot}, anchor : {"bottom-right"},
      offset_x : {0}, offset_y : {0}, margin : {1}, scale : {50}, opacity : {60},
      format : {"jpeg", "keep"}, suffix : { <<>> }, overwrite : BOOLEAN, dry_run : BOOLEAN ]
ProcessCalls ==
    [ fn : {"process_file"}, page : {Page_a_jpg, Page_b_JPG}, wm : { <<2, 1>> },
      a : ProcessArgs,
      e : [ undecodable : { {}, {Page_b_JPG} }, unwritable : { {}, {Page_a_jpg} },
            avoid_json : {"object"}, overrides : ProcessTables ],
      fs : { EmptyDict, Out_a_jpg :> OldContent } ]

ProcessFileCall ==
    /\ call.fn = "process_file" /\ ret = NotCalled
    /\ ret' = Ret([ result |-> process_file(call.page, call.wm, call.a, call.a.input,
                                            call.e, call.fs, {}),
                    after  |-> shared_after(call.page, call.wm, call.a,
                                            load_overrides(call.e), call.e) ])
    /\ UNCHANGED <<call, args, env, files, dirs, log, pc, pages, idx, run, hist, app, worker>>

\* the run_with_args calls with limit_dir: the pages on disk are some of
\* four, in ch1, below it, in its sibling ch10 and at the top
Dir_ch10    == <<"c", "h", "1", "0">>
Page_10_jpg == InputRoot \o << Dir_ch10, <<"a", ".", "j", "p", "g">> >>
LimitFiles  == {Page_a_jpg, Page_c_jpeg, Page_10_jpg, Page_b_JPG}
LimitDirs   == { <<>>, << InputRoot \o <<Dir_ch1>> >>, << InputRoot \o <<Dir_ch1, Dir_sub>> >> }
LimitCalls  ==
    [ fn : {"run_with_args"}, tree : SUBSET LimitFiles, input : {InputRoot},
      extensions : {DefaultExtensions}, recursive : {TRUE}, limit_dir : LimitDirs ]

\* run_with_args, lines 301-313: the pages of the run, or SystemExit
PagesOfRun ==
    /\ call.fn = "run_with_args" /\ ret = NotCalled
    /\ \E sorted \in SortedOrders(MatchingFiles(call.tree, call.input,
                                                 call.extensions, call.recursive)) :
          LET selected == SelectPages(limit_filter(sorted, call.limit_dir), <<>>)
          IN  ret' = IF EmptyIsFatal(selected) THEN Raised ELSE Ret(selected)
    /\ UNCHANGED <<call, args, env, files, dirs, log, pc, pages, idx, run, hist, app, worker>>

(***************************************************************************)
(* The window, src/app/gui.py (WatermarkApp) with the preview panel of     *)
(* src/app/components/preview_panel.py.  app holds the fields the          *)
(* handlers below read or write and after, the callbacks scheduled with    *)
(* self.after(0, ...) that Tk has not run yet; worker holds one record     *)
(* per thread that is executing worker(), from the start of the thread to  *)
(* its last statement.  The handlers run on Tk's thread, one at a time;    *)
(* the steps of a worker interleave with them.  Labels, the progress bar   *)
(* and the field manual_position, which nothing reads, are left out.       *)
(* Names of pages are path components, positions are pairs, and a missing  *)
(* position (None) is the empty tuple.                                     *)
(***************************************************************************)
NoPos == <<>>

\* the pages of the chapter that is selected and shown, and their names
GuiPages   == <<Page_a_jpg, Page_a_png>>
PageNames  == { PathName(GuiPages[i]) : i \in 1..Len(GuiPages) }

\* what the slider of the scale is moved between, in percent
ScaleValues == {25, 50}

\* the page is drawn at twice its size (display_scale, in percent), one
\* canvas pixel from the left (image_offset)
ImageOffset  == <<1, 0>>
DisplayScale == 200

\* the click of the window: the event's canvas coordinates.  The watermark
\* fits at its position on the page with one of ScaleValues and not with
\* the other.
ClickEvents  == { <<7, 4>> }

\* int() of a quotient: towards zero
TruncDiv(n, d) == IF n >= 0 THEN n \div d ELSE 0 - ((0 - n) \div d)

\* PreviewPanel._on_click, lines 162-170: the position of a click on the page
click_position(event, original_size) ==
    LET img_x == TruncDiv((event[1] - ImageOffset[1]) * 100, DisplayScale)    \* 163
        img_y == TruncDiv((event[2] - ImageOffset[2]) * 100, DisplayScale)    \* 164
    IN  << Max(0, Min(original_size[1], img_x)),                              \* 167
           Max(0, Min(original_size[2], img_y)) >>                            \* 168

\* PreviewPanel.get_manual_position, lines 334-336
get_manual_position(w) == IF w.manual_mode THEN w.crosshair_pos ELSE NoPos

\* _build_args, lines 771-779: the saved position of the page, else the
\* crosshair of the preview
manual_pos_for(w, for_page) ==
    IF for_page # <<>> /\ for_page \in DOMAIN w.page_positions                \* 773
    THEN w.page_positions[for_page]                                           \* 775
    ELSE get_manual_position(w)                                               \* 778

\* _build_args, lines 790-792
scale_for(w, for_page) ==
    IF for_page # <<>> /\ for_page \in DOMAIN w.page_settings
    THEN w.page_settings[for_page].scale
    ELSE w.scale_slider

\* _build_args, line 793
opacity_for(w, for_page) ==
    IF for_page # <<>> /\ for_page \in DOMAIN w.page_settings
    THEN w.page_settings[for_page].opacity
    ELSE w.opacity_slider

\* variant: the margin of the slider also with a manual position
margin_for_slider(w, manual_pos) == w.margin_slider
\* _build_args, line 803
margin_for(w, manual_pos) == IF manual_pos # NoPos THEN 0 ELSE w.margin_slider

\* _build_args, lines 768-814, with the two assignments of lines 881-882;
\* the fields process_file reads
build_args(w, for_page) ==
    LET manual_pos == manual_pos_for(w, for_page)
    IN  [ input     |-> InputRoot,                                            \* 882
          output    |-> OutputRoot,                                           \* 881
          anchor    |-> IF manual_pos # NoPos THEN "top-left" ELSE w.anchor,  \* 781-786
          offset_x  |-> IF manual_pos # NoPos THEN manual_pos[1] ELSE 0,      \* 783, 787
          offset_y  |-> IF manual_pos # NoPos THEN manual_pos[2] ELSE 0,      \* 784, 788
          margin    |-> margin_for(w, manual_pos),                            \* 803
          scale     |-> scale_for(w, for_page),                               \* 792
          opacity   |-> opacity_for(w, for_page),                             \* 793
          format    |-> w.format,                                             \* 807
          suffix    |-> <<>>,                                                 \* 808
          overwrite |-> w.overwrite,                                          \* 809
          dry_run   |-> FALSE,                                                \* 810
          avoid_json |-> None ]                                               \* 812

\* worker, lines 880-888, for one page: the manual position in effect, the
\* arguments built and what process_file does with them
place_page(w, page_path, e, fs, ds) ==
    LET Placed(a, r) ==
            [ name |-> PathName(page_path),
              manual |-> manual_pos_for(w, PathName(page_path)),
              a |-> a, raised |-> r.raised, lines |-> r.lines,
              files |-> r.files, dirs |-> r.dirs ]
        Processed(a) ==
            { Placed(a, r) :
                r \in {process_file(page_path, e.wm_size, a, InputRoot, e, fs, ds)} } \* 887-888
    IN  CHOOSE rec \in UNION { Processed(a) :
                                 a \in {build_args(w, PathName(page_path))} } : TRUE \* 880-882

\* what the window finds on disk: the watermark file and the pages of the
\* chapter
GuiDisk(wm_is_file, wm_opens, listable, tree, undecodable) ==
    [ wm_is_file |-> wm_is_file, wm_opens |-> wm_opens, listable |-> listable,
      tree |-> tree, undecodable |-> undecodable, unwritable |-> {},
      avoid_json |-> None, wm_size |-> <<2, 1>> ]
GuiDisks ==
    { GuiDisk(TRUE, TRUE, TRUE, {Page_a_jpg, Page_a_png}, {}),
      GuiDisk(TRUE, TRUE, TRUE, {Page_a_jpg, Page_a_png}, {Page_a_png}),
      GuiDisk(TRUE, TRUE, TRUE, {}, {}),
      GuiDisk(TRUE, TRUE, FALSE, {Page_a_jpg, Page_a_png}, {}),
      GuiDisk(TRUE, FALSE, TRUE, {Page_a_jpg, Page_a_png}, {}),
      GuiDisk(FALSE, FALSE, TRUE, {Page_a_jpg, Page_a_png}, {}) }

\* __init__, lines 63-75, and PreviewPanel.__init__, with the settings the
\* user has made before: a page of the chapter is shown
NewApp ==
    [ running |-> FALSE, run_btn |-> "normal", current_page_idx |-> 0,
      page_positions |-> EmptyDict, page_settings |-> EmptyDict,
      manual_mode |-> FALSE, crosshair_pos |-> NoPos,
      scale_slider |-> 50, opacity_slider |-> 60, margin_slider |-> 1,
      anchor |-> "bottom-right", format |-> "keep", overwrite |-> TRUE,
      after |-> <<>> ]

InitGui ==
    /\ app = NewApp
    /\ worker = <<>>
    /\ env \in GuiDisks
    /\ files = EmptyDict /\ dirs = {}
    /\ call = None /\ ret = NotCalled /\ args = None /\ log = <<>>
    /\ pc = "idle" /\ pages = <<>> /\ idx = 0 /\ run = 0 /\ hist = None

GuiRest == <<call, ret, args, env, log, pc, pages, idx, run, hist>>

\* the page that is selected in the list
CurrentPage == PathName(GuiPages[app.current_page_idx + 1])

\* PreviewPanel._toggle_manual_mode, lines 136-150
ToggleManualMode ==
    /\ app' = [app EXCEPT !.manual_mode = ~ app.manual_mode,
                          !.crosshair_pos = IF app.manual_mode THEN NoPos ELSE @]
    /\ UNCHANGED <<worker, files, dirs>> /\ UNCHANGED GuiRest

\* PreviewPanel._on_click, lines 154-184
OnClick ==
    /\ app.manual_mode                                                        \* 156
    /\ \E event \in ClickEvents :
          app' = [app EXCEPT !.crosshair_pos =
                                 click_position(event, PageSizeOf(GuiPages[1]))]
    /\ UNCHANGED <<worker, files, dirs>> /\ UNCHANGED GuiRest

\* the slider of the scale is moved
MoveScaleSlider ==
    /\ \E v \in ScaleValues \ {app.scale_slider} :
          app' = [app EXCEPT !.scale_slider = v]
    /\ UNCHANGED <<worker, files, dirs>> /\ UNCHANGED GuiRest

\* _select_page, lines 677-712.  With a saved position line 701 calls
\* set_manual_position, which PreviewPanel does not have: AttributeError
\* ends the handler there.
SelectPage ==
    /\ \E index \in 0..(Len(GuiPages) - 1) :
          LET name == PathName(GuiPages[index + 1])
          IN  app' =
                IF name \in DOMAIN app.page_positions                         \* 699
                THEN [app EXCEPT !.current_page_idx = index]                  \* 682, 701
                ELSE [app EXCEPT !.current_page_idx = index,
                                 !.crosshair_pos = NoPos,                     \* 704
                                 !.scale_slider =                             \* 709
                                     IF name \in DOMAIN app.page_settings
                                     THEN app.page_settings[name].scale ELSE @,
                                 !.opacity_slider =                           \* 710
                                     IF name \in DOMAIN app.page_settings
                                     THEN app.page_settings[name].opacity ELSE @]
    /\ UNCHANGED <<worker, files, dirs>> /\ UNCHANGED GuiRest

\* _save_page_position, lines 954-978
SavePagePosition ==
    /\ LET pos == get_manual_position(app)                                    \* 960
       IN  app' =
             IF pos = NoPos THEN app                                          \* 961-963
             ELSE [app EXCEPT
                     !.page_positions = (CurrentPage :> pos) @@ @,            \* 968
                     !.page_settings  =                                       \* 971-974
                         (CurrentPage :> [scale |-> app.scale_slider,
                                          opacity |-> app.opacity_slider]) @@ @]
    /\ UNCHANGED <<worker, files, dirs>> /\ UNCHANGED GuiRest

\* a dict without one of its keys
Without(d, key) == [ k \in DOMAIN d \ {key} |-> d[k] ]

\* _clear_page_position, lines 980-993; page_settings is not assigned
ClearPagePosition ==
    /\ app' = [app EXCEPT !.page_positions = Without(@, CurrentPage),         \* 986-987
                          !.crosshair_pos = NoPos]                            \* 993
    /\ UNCHANGED <<worker, files, dirs>> /\ UNCHANGED GuiRest

\* _clear_all_positions, lines 1000-1009; page_settings is not assigned
ClearAllPositions ==
    /\ app' = IF app.page_positions # EmptyDict                               \* 1002
              THEN [app EXCEPT !.page_positions = EmptyDict,                  \* 1003
                               !.crosshair_pos = NoPos]                       \* 1008
              ELSE app
    /\ UNCHANGED <<worker, files, dirs>> /\ UNCHANGED GuiRest

\* variant: the test of running left out
IsRunningIgnored(w) == FALSE
\* _start_processing, line 818
IsRunning(w) == w.running

\* _start_processing, lines 816-850 and 904: Run is pressed.  A chapter is
\* selected and the output folder is set.
StartProcessing ==
    /\ IF IsRunning(app) \/ ~ env.wm_is_file                                  \* 818, 825
       THEN UNCHANGED <<app, worker>>
       ELSE /\ app' = [app EXCEPT !.running = TRUE, !.run_btn = "disabled"]   \* 841-842
            /\ worker' = Append(worker, [ pc |-> "count", i |-> 0,            \* 904
                                          copy |-> app.page_positions,        \* 850
                                          placed |-> <<>> ])
    /\ UNCHANGED <<files, dirs>> /\ UNCHANGED GuiRest

\* the list worker without its thread t, which has ended
Ended(t) == [ k \in 1..(Len(worker) - 1) |-> IF k < t THEN worker[k] ELSE worker[k + 1] ]

\* self.after(0, callback), from the worker
Schedule(callback) == [app EXCEPT !.after = Append(@, callback)]

\* worker, lines 858-868: the pages are counted; listing a chapter that
\* cannot be listed raises, to the handler of lines 901-902
WorkerCount ==
    /\ \E t \in 1..Len(worker) :
          /\ worker[t].pc = "count"
          /\ IF ~ env.listable
             THEN app' = Schedule("_finish(False, str(e))") /\ worker' = Ended(t) \* 902
             ELSE IF env.tree = {}
             THEN app' = Schedule("_finish(False, 'No images found')")        \* 867
                  /\ worker' = Ended(t)                                       \* 868
             ELSE app' = app /\ worker' = [worker EXCEPT ![t].pc = "open"]
    /\ UNCHANGED <<files, dirs>> /\ UNCHANGED GuiRest

\* worker, line 871: the watermark is opened
WorkerOpen ==
    /\ \E t \in 1..Len(worker) :
          /\ worker[t].pc = "open"
          /\ IF ~ env.wm_opens
             THEN app' = Schedule("_finish(False, str(e))") /\ worker' = Ended(t) \* 902
             ELSE app' = app /\ worker' = [worker EXCEPT ![t].pc = "pages", ![t].i = 1]
    /\ UNCHANGED <<files, dirs>> /\ UNCHANGED GuiRest

\* worker, lines 879-897: one page of the chapter, in the order of line 877
\* (the names of GuiPages are in the order of their lower case)
WorkerPage ==
    /\ \E t \in 1..Len(worker) :
          /\ worker[t].pc = "pages"
          /\ \E r \in {place_page(app, GuiPages[worker[t].i], env, files, dirs)} :
                 /\ files' = r.files
                 /\ dirs' = r.dirs
                 /\ app' = IF r.raised THEN Schedule("error")                 \* 896-897
                           ELSE Schedule("progress")                          \* 891-894
                 /\ worker' = [worker EXCEPT
                       ![t].placed = Append(@, [ f \in {"name", "manual", "a", "raised", "lines"}
                                                   |-> r[f] ]),
                       ![t].i = @ + 1,
                       ![t].pc = IF worker[t].i = Len(GuiPages) THEN "finish" ELSE "pages"]
    /\ UNCHANGED GuiRest

\* worker, line 899: the end of the batch
WorkerFinish ==
    /\ \E t \in 1..Len(worker) :
          /\ worker[t].pc = "finish"
          /\ app' = Schedule("_finish(True)")
          /\ worker' = Ended(t)
    /\ UNCHANGED <<files, dirs>> /\ UNCHANGED GuiRest

\* _finish, lines 906-932
finish(w) == [w EXCEPT !.running = FALSE, !.run_btn = "normal"]               \* 911-912

\* Tk runs the callback scheduled first.  The callback of line 902 reads
\* the variable e of worker when it runs: the handler of lines 901-902 has
\* unbound e when it was left, and the callback raises NameError then; it
\* calls _finish only when it runs before the worker has left the handler.
TkCallback ==
    /\ app.after # <<>>
    /\ LET callback == Head(app.after)
           rest     == [app EXCEPT !.after = Tail(@)]
       IN  IF callback \in {"_finish(True)", "_finish(False, 'No images found')"}
           THEN app' = finish(rest)
           ELSE IF callback = "_finish(False, str(e))"
           THEN app' = finish(rest) \/ app' = rest
           ELSE app' = rest                                                   \* 891-894, 897
    /\ UNCHANGED <<worker, files, dirs>> /\ UNCHANGED GuiRest

NextGui ==
    \/ ToggleManualMode
    \/ OnClick
    \/ MoveScaleSlider
    \/ SelectPage
    \/ SavePagePosition
    \/ ClearPagePosition
    \/ ClearAllPositions
    \/ StartProcessing
    \/ WorkerCount
    \/ WorkerOpen
    \/ WorkerPage
    \/ WorkerFinish
    \/ TkCallback

SpecGui == InitGui /\ [][NextGui]_vars

(***************************************************************************)
(* The calls of the functions (SpecFn).                                    *)
(***************************************************************************)
\* the clicks on the canvas, over the page and around it
CanvasPoints == (0..(2 * MaxPage + 3)) \X (0..(2 * MaxPage))

\* the window when the worker comes to a page: the preview is in manual
\* mode or not, with a click made or not, and the click saved for the page
\* or not
PlaceCalls ==
    [ fn : {"worker"}, page : {Page_a_jpg}, event : CanvasPoints,
      manual_mode : BOOLEAN, saved : BOOLEAN, scale_slider : ScaleValues ]

WindowOf(c) ==
    LET pos == click_position(c.event, PageSizeOf(c.page))
    IN  [NewApp EXCEPT
           !.manual_mode = c.manual_mode,
           !.crosshair_pos = IF c.manual_mode /\ ~ c.saved THEN pos ELSE NoPos,
           !.page_positions = IF c.saved THEN PathName(c.page) :> pos ELSE EmptyDict,
           !.page_settings = IF c.saved
                             THEN PathName(c.page) :> [scale |-> 50, opacity |-> 60]
                             ELSE EmptyDict,
           !.scale_slider = c.scale_slider]

\* worker, lines 880-888, for the page
PlacePage ==
    /\ call.fn = "worker" /\ ret = NotCalled
    /\ \E w \in {WindowOf(call)}, e \in {GuiDisk(TRUE, TRUE, TRUE, {call.page}, {})} :
          ret' = Ret(place_page(w, call.page, e, EmptyDict, {}))
    /\ UNCHANGED <<call, args, env, files, dirs, log, pc, pages, idx, run, hist, app, worker>>

InitFn ==
    /\ \/ call \in MergeCalls
       \/ call \in ComposeCalls
       \/ call \in AnchorCalls
       \/ call \in BoxCalls
       \/ call \in PathCalls
       \/ call \in IterCalls
       \/ call \in ResizeCalls
       \/ call \in OpacityCalls
       \/ call \in ProcessCalls
       \/ call \in PlaceCalls
       \/ call \in LimitCalls
    /\ ret = NotCalled
    /\ BatchIdle

NextFn ==
    \/ MergeOverrides
    \/ Compose
    \/ AnchorPosition
    \/ BoxesIntersect
    \/ OutputPathFor
    \/ IterPages
    \/ ResizeWatermark
    \/ ApplyOpacity
    \/ ProcessFileCall
    \/ PagesOfRun
    \/ PlacePage

SpecFn == InitFn /\ [][NextFn]_vars

(***************************************************************************)
(* Claims about merge_overrides (SpecFn).                                  *)
(***************************************************************************)
OverrideFields == {"anchor", "offset", "margin", "scale", "opacity", "avoid"}
\* the keys merge_overrides looks up, in order
LookupKeys == <<Star, call.name, Lower(call.name)>>
\* the i-th key is in the table and its entry is an object
Applies(i) == LookupKeys[i] \in DOMAIN call.overrides
              /\ call.overrides[LookupKeys[i]][1] = "dict"
\* the lookups whose entry defines field f
Defining(f) == { i \in 1..3 : Applies(i) /\ f \in DOMAIN call.overrides[LookupKeys[i]][2] }
Last(S) == CHOOSE i \in S : \A j \in S : j <= i
Table_C11 == (Star :> JDict([margin |-> JNum(10)]))
             @@ (Name_Page01 :> JDict([margin |-> JNum(20)]))

Composed  == HasReturned("compose_watermarked_image")
\* the override of the page: the only entry of the table is under "*"
Override  == call.overrides[Star][2]
Present(f) == f \in DOMAIN Override
IsInt(x)  == x[1] = "int"
IsBox(x)  == x[1] = "list" /\ Len(x[2]) = 4 /\ \A j \in 1..4 : IsInt(x[2][j])
BoxOf(x)  == <<x[2][1][2], x[2][2][2], x[2][3][2], x[2][4][2]>>
\* the well-formed boxes of a list of entries, in order
RECURSIVE BoxesIn(_)
BoxesIn(entries) ==
    IF entries = <<>> THEN <<>>
    ELSE (IF IsBox(Head(entries)) THEN <<BoxOf(Head(entries))>> ELSE <<>>)
         \o BoxesIn(Tail(entries))

\* C12: in compose_watermarked_image each of anchor, offset, margin, scale,
\* opacity and avoid is settled on its own: a field absent from the override
\* takes the run's argument (no zone for avoid) whatever other fields the
\* override defines, and a field the override defines takes its value.
C12_FieldsFallBackIndependently ==
    Composed =>
        LET s == ret[2].settings
        IN  /\ s.anchor = IF Present("anchor") THEN Override.anchor[2] ELSE call.a.anchor
            /\ ~ Present("offset") =>
                  s.offset_x = call.a.offset_x /\ s.offset_y = call.a.offset_y
            /\ (Present("offset") /\ Override.offset[1] = "list"
                                  /\ Len(Override.offset[2]) = 2) =>
                  s.offset_x = Override.offset[2][1][2] /\ s.offset_y = Override.offset[2][2][2]
            /\ ~ Present("margin") => s.margin = call.a.margin
            /\ (Present("margin") /\ IsInt(Override.margin)) => s.margin = Override.margin[2]
            /\ s.scale = IF Present("scale") THEN Override.scale[2] ELSE call.a.scale
            /\ s.opacity = IF Present("opacity") THEN Override.opacity[2] ELSE call.a.opacity
            /\ ~ Present("avoid") => s.avoid = <<>>
            /\ (Present("avoid") /\ Override.avoid[1] = "list"
                                 /\ \A i \in 1..Len(Override.avoid[2]) : IsBox(Override.avoid[2][i])) =>
                  s.avoid = [i \in 1..Len(Override.avoid[2]) |-> BoxOf(Override.avoid[2][i])]
            /\ ret[2].info.avoid_zones = Len(s.avoid)

\* C12 witness: the override defines margin and avoid and nothing else; the
\* page is composed with these and with the run's anchor, offset and scale.
C12_Witness ==
    /\ Composed
    /\ DOMAIN Override = {"margin", "avoid"}
    /\ ret[2].settings.margin = 0 /\ ret[2].settings.avoid = <<BoxOf(Zone_a), BoxOf(Zone_b)>>
    /\ ret[2].settings.offset_x = 1 /\ ret[2].settings.anchor = "bottom-right"
    /\ ret[2].settings.scale = 50

\* a component that parses as a number, and the number
Parses(x)    == x[1] = "int" \/ (x[1] = "str" /\ x[2] \in {"0", "1", "2"})
Parsed(x)    == IF x[1] = "int" THEN x[2]
                ELSE CASE x[2] = "0" -> 0 [] x[2] = "1" -> 1 [] x[2] = "2" -> 2
\* an entry of an avoid list that is a box: four components, all numbers
WellFormed(z) == z[1] = "list" /\ Len(z[2]) = 4 /\ \A j \in 1..4 : Parses(z[2][j])
RECURSIVE WellFormedBoxes(_)
WellFormedBoxes(entries) ==
    IF entries = <<>> THEN <<>>
    ELSE (IF WellFormed(Head(entries))
          THEN << <<Parsed(Head(entries)[2][1]), Parsed(Head(entries)[2][2]),
                    Parsed(Head(entries)[2][3]), Parsed(Head(entries)[2][4])>> >>
          ELSE <<>>)
         \o WellFormedBoxes(Tail(entries))
\* the override has an avoid list, and nothing else in it can fail the page
OnlyAvoidCanFail ==
    /\ call.fn = "compose_watermarked_image" /\ ret # NotCalled
    /\ Present("avoid") /\ Override.avoid[1] = "list"
    /\ Present("anchor") => Override.anchor[2] \in ANCHORS
    /\ Present("margin") => Parses(Override.margin)

\* C13: an avoid list with malformed boxes (wrong arity, or components that
\* are no numbers) never fails the page: compose_watermarked_image returns,
\* and the zones it used are exactly the well-formed boxes of the list.
C13_MalformedBoxesDropped ==
    OnlyAvoidCanFail =>
        /\ ret # Raised
        /\ ret[2].settings.avoid = WellFormedBoxes(Override.avoid[2])

(***************************************************************************)
(* Claims about anchors (SpecPick, SpecFn).                                *)
(***************************************************************************)
\* C14: pick_position with an anchor that is none of the five raises an
\* exception and returns no placement, for every page size, watermark
\* size, margin, offset and zone list.
C14_UnknownAnchorRaises ==
    (ret # NotCalled /\ call.anchor \notin ANCHORS) => ret = ValueError

\* C14 witness: pick_position was called with anchor "middle" and a zone,
\* and raised.
C14_Witness ==
    /\ call.anchor = "middle" /\ call.avoid # <<>>
    /\ ret = ValueError

\* the free space on each side of the watermark placed at ret[2]
GapLeft   == ret[2][1]
GapTop    == ret[2][2]
GapRight  == call.page_w - (ret[2][1] + call.wm_w)
GapBottom == call.page_h - (ret[2][2] + call.wm_h)

\* C15: anchor_position places the watermark exactly margin pixels from the
\* two edges a corner anchor names; for center the space left and right,
\* and above and below, is the same (up to the odd pixel) whatever the
\* margin; bottom-right with margin 16 on a 1000x1400 page and a 200x100
\* watermark gives (784, 1284).
C15_AnchorCoordinates ==
    HasReturned("anchor_position") =>
        /\ call.anchor = "top-left"     => GapLeft = call.margin /\ GapTop = call.margin
        /\ call.anchor = "top-right"    => GapRight = call.margin /\ GapTop = call.margin
        /\ call.anchor = "bottom-left"  => GapLeft = call.margin /\ GapBottom = call.margin
        /\ call.anchor = "bottom-right" => GapRight = call.margin /\ GapBottom = call.margin
        /\ call.anchor = "center"       => /\ GapRight - GapLeft \in {0, 1}
                                           /\ GapBottom - GapTop \in {0, 1}
        /\ call = AnchorCall_C15 => ret[2] = <<784, 1284>>

\* C15 witness: the call of the documentation has returned.
C15_Witness ==
    /\ HasReturned("anchor_position") /\ call = AnchorCall_C15
    /\ ret[2] = <<784, 1284>>

(***************************************************************************)
(* Claims about boxes_intersect (SpecFn).                                  *)
(***************************************************************************)
\* the length the two boxes share on the x axis and on the y axis
OverlapX == Min(call.a[1] + call.a[3], call.b[1] + call.b[3]) - Max(call.a[1], call.b[1])
OverlapY == Min(call.a[2] + call.a[4], call.b[2] + call.b[4]) - Max(call.a[2], call.b[2])
\* one box ends where the other begins
Touching == \/ call.a[1] + call.a[3] = call.b[1] \/ call.b[1] + call.b[3] = call.a[1]
            \/ call.a[2] + call.a[4] = call.b[2] \/ call.b[2] + call.b[4] = call.a[2]

ExtFor(fmt, source_ext) ==
    CASE fmt = "keep" -> source_ext
      [] fmt = "png"  -> <<".", "p", "n", "g">>
      [] OTHER        -> <<".", "j", "p", "g">>
OutName == call.name.stem \o call.suffix \o ExtFor(call.fmt, call.name.ext)

\* C17: output_path_for gives the output root joined with the page's path
\* relative to the input root (with the file name alone when the page is
\* not under the input root); the file name is the stem, the suffix, then
\* the extension: the source's for keep, .png for png, .jpg otherwise;
\* <input>/ch1/sub/p01.jpg with keep and no suffix gives
\* <output>/ch1/sub/p01.jpg.
C17_OutputPathMapping ==
    HasReturned("output_path_for") =>
        /\ call.under = call.input_root =>
              ret[2] = call.output_dir \o call.below \o <<OutName>>
        /\ call.under # call.input_root =>
              ret[2] = call.output_dir \o <<OutName>>
        /\ (SrcOf(call) = << <<"i", "n">>, Dir_ch1, Dir_sub, <<"p", "0", "1", ".", "j", "p", "g">> >>
             /\ call.fmt = "keep" /\ call.suffix = <<>>) =>
              ret[2] = << <<"o", "u", "t">>, Dir_ch1, Dir_sub, <<"p", "0", "1", ".", "j", "p", "g">> >>

\* C17 witness: in/ch1/sub/p01.jpg was mapped with format png and suffix
\* "_wm" to out/ch1/sub/p01_wm.png.
C17_Witness ==
    /\ HasReturned("output_path_for")
    /\ SrcOf(call) = << <<"i", "n">>, Dir_ch1, Dir_sub, <<"p", "0", "1", ".", "j", "p", "g">> >>
    /\ ret[2] = << <<"o", "u", "t">>, Dir_ch1, Dir_sub,
                   <<"p", "0", "1", "_", "w", "m", ".", "p", "n", "g">> >>

(***************************************************************************)
(* Claims about the pages of a run (Spec).                                 *)
(***************************************************************************)
\* the first n elements of seq, all of them when it has fewer
FirstN(seq, n) == [i \in 1..(IF n < 0 THEN 0 ELSE IF n < Len(seq) THEN n ELSE Len(seq)) |-> seq[i]]
\* the run got as far as selecting its pages
PagesSelected == pc # "start" /\ ~ FatalBeforePages(args, env)

\* C18: with --sample N the pages of the run are the first N of the sorted
\* enumeration, all of them when there are fewer, whatever integer N is;
\* no other page is processed.
C18_SampleIsFirstN ==
    (PagesSelected /\ args.sample # <<>>) =>
        /\ \E sorted \in SortedOrders(MatchingFiles(env.tree, args.input,
                                                     args.extensions, args.recursive)) :
              pages = FirstN(sorted, args.sample[1])
        /\ Len(log) <= Len(pages)

(***************************************************************************)
(* Claims about iter_pages (SpecFn).                                       *)
(***************************************************************************)
\* an extension as the filter compares it: with its dot, in lower case
Dotted(ext) == IF ext[1] = "." THEN Lower(ext) ELSE <<".">> \o Lower(ext)
\* the files iter_pages is to return
Wanted ==
    { f \in call.tree :
        /\ SubSeq(f, 1, Len(call.folder)) = call.folder
        /\ call.recursive \/ Len(f) = Len(call.folder) + 1
        /\ \E ext \in call.extensions : Lower(PathSuffix(f)) = Dotted(ext) }
SortKey(f) == Lower(PathStr(f))

\* C19: iter_pages returns exactly the files under the input root whose
\* suffix is in the extension set, compared without case (at every depth
\* when recursive, at the top level otherwise), each once, in the order of
\* their lower-cased full paths; the order is the same whenever the
\* directory content is the same.
C19_EnumerationIsDeterministic ==
    HasReturned("iter_pages") =>
        /\ { ret[2][i] : i \in 1..Len(ret[2]) } = Wanted
        /\ Len(ret[2]) = Cardinality(Wanted)
        /\ \A i, j \in 1..Len(ret[2]) :
              i < j => ~ StrLess(SortKey(ret[2][j]), SortKey(ret[2][i]))
        /\ \A other \in SortedOrders(MatchingFiles(call.tree, call.folder,
                                                    call.extensions, call.recursive)) :
              ret[2] = other

(***************************************************************************)
(* Claims about resize_watermark (SpecFn).                                 *)
(***************************************************************************)
\* round(n / d) as Python rounds: to the nearest integer, a half to the even
Round(n, d) ==
    LET q == n \div d
        r == n % d
    IN  IF 2 * r < d THEN q
        ELSE IF 2 * r > d THEN q + 1
        ELSE IF q % 2 = 0 THEN q ELSE q + 1
Clamp(x, lo, hi) == IF x < lo THEN lo ELSE IF x > hi THEN hi ELSE x

\* C20: resize_watermark gives the width round(pageWidth * clamp(scale,
\* 0.01, 1.0)), and 1 when that is less, and a height within one pixel of
\* the height of the source's aspect ratio at that width, and at least 1.
C20_WidthIsRounded ==
    HasReturned("resize_watermark") =>
        /\ ret[2][1] = Max(1, Round(call.page_w * Clamp(call.scale, 1, 100), 100))
        /\ ret[2][2] >= 1
        /\ \/ ret[2][2] = 1
           \/ /\ ret[2][2] * call.base[1] <= ret[2][1] * call.base[2] + call.base[1]
              /\ ret[2][2] * call.base[1] >= ret[2][1] * call.base[2] - call.base[1]

(***************************************************************************)
(* Claims about apply_opacity (SpecFn).                                    *)
(***************************************************************************)
\* C21: apply_opacity leaves a pixel as it is when opacity >= 0.999; at
\* opacity 0.5 it gives every alpha a the value round(a * 0.5); the red,
\* green and blue values are never changed.
C21_AlphaIsRounded ==
    HasReturned("apply_opacity") =>
        /\ call.opacity >= 999 => ret[2] = call.pixel
        /\ call.opacity = 500 => ret[2][4] = Round(call.pixel[4] * 500, 1000)
        /\ <<ret[2][1], ret[2][2], ret[2][3]>> = <<call.pixel[1], call.pixel[2], call.pixel[3]>>

(***************************************************************************)
(* Claims about process_file (SpecFn).                                     *)
(***************************************************************************)
Processed == call.fn = "process_file" /\ ret # NotCalled

C29_OneLinePerPage ==
    (Processed /\ ~ ret[2].result.raised) =>
        LET r == ret[2].result
            out == output_path_for(call.page, call.a.input, call.a.output,
                                   call.a.suffix, call.a.format)
        IN  /\ Len(r.lines) = 1
            /\ r.lines[1].kind \in {"[dry-run]", "[skip exists]", "[wrote]"}
            /\ r.lines[1].kind = "[wrote]" =>
                  /\ out \in DOMAIN r.files /\ r.files[out].src = call.page
                  /\ \A o \in DOMAIN call.fs \ {out} : r.files[o] = call.fs[o]
            /\ r.lines[1].kind # "[wrote]" => r.files = call.fs
            /\ r.lines[1].kind = "[dry-run]" <=> call.a.dry_run

\* C29 witness: the page's output was on disk and overwrite was off; the
\* one line is "[skip exists]" and the file is the old one.
C29_Witness ==
    /\ Processed /\ ~ ret[2].result.raised
    /\ ret[2].result.lines[1].kind = "[skip exists]"
    /\ ret[2].result.files = (Out_a_jpg :> OldContent)

(***************************************************************************)
(* Claims about the outputs of one run (Spec).                             *)
(***************************************************************************)
\* C26: two different pages of a run never have the same output path,
\* whatever the format and the suffix; so no page is skipped for, and no
\* output is written over, the output of another page of the run.
C26_OutputsAreDistinct ==
    InLoop =>
        /\ \A i, j \in 1..Len(pages) : i # j => OutOf(pages[i]) # OutOf(pages[j])
        /\ \A k \in 1..Len(log) :
              (run = 1 /\ log[k].kind = "[skip exists]") =>
                  \E o \in DOMAIN env.files : log[k].path = <<PathName(o)>>

(***************************************************************************)
(* Claims about limit_dir (SpecFn).                                        *)
(***************************************************************************)
\* the page is in the directory, at any depth
Inside(page, dir) == Len(page) > Len(dir) /\ SubSeq(page, 1, Len(dir)) = dir

\* C27: with limit_dir the pages of the run are exactly the enumerated
\* pages inside limit_dir, at any depth; a page of another directory, a
\* sibling for one, is not among them.
C27_OnlyPagesInsideLimitDir ==
    (HasReturned("run_with_args") /\ call.limit_dir # <<>>) =>
        { ret[2][i] : i \in 1..Len(ret[2]) } = { f \in call.tree : Inside(f, call.limit_dir[1]) }

(***************************************************************************)
(* Claims about the window (SpecGui).                                      *)
(***************************************************************************)
\* C28: with a manual position (x, y) in effect for a page, the
\* configuration of _build_args has anchor top-left, margin 0, offset
\* (x, y) and no overrides, and the watermark is pasted with its top-left
\* corner at (x, y) under the anchor top-left, whether it fits there or not.
C28_ManualPositionIsExact ==
    (HasReturned("worker") /\ ret[2].manual # NoPos) =>
        /\ ret[2].a.anchor = "top-left" /\ ret[2].a.margin = 0
        /\ <<ret[2].a.offset_x, ret[2].a.offset_y>> = ret[2].manual
        /\ ret[2].a.avoid_json = None
        /\ ~ ret[2].raised
        /\ ret[2].lines[1].info.pos = ret[2].manual
        /\ ret[2].lines[1].info.anchor = "top-left"
        /\ ret[2].files[output_path_for(call.page, InputRoot, OutputRoot, <<>>, "keep")].pos
              = ret[2].manual

\* the watermark of the page does not fit at the position
Overhangs(rec) ==
    \/ rec.manual[1] + rec.lines[1].info.size[1] > PageSizeOf(call.page)[1]
    \/ rec.manual[2] + rec.lines[1].info.size[2] > PageSizeOf(call.page)[2]

C28_Witness ==
    /\ HasReturned("worker") /\ ret[2].manual # NoPos /\ ~ ret[2].raised
    /\ Overhangs(ret[2]) /\ call.saved

\* C30: whatever is saved and cleared, a page has saved settings only if
\* it has a saved position, and a page without a saved position is
\* processed with the scale and the opacity of the sliders.
C30_SettingsOnlyWithPosition ==
    /\ DOMAIN app.page_settings \subseteq DOMAIN app.page_positions
    /\ \A name \in PageNames \ DOMAIN app.page_positions :
          /\ build_args(app, name).scale = app.scale_slider
          /\ build_args(app, name).opacity = app.opacity_slider

\* C23: a batch that was started ends with _finish: once its worker has
\* ended and Tk has run every callback, running is false again and the
\* button is enabled.
C23_BatchEndsWithFinish ==
    (worker = <<>> /\ app.after = <<>>) => (~ app.running /\ app.run_btn = "normal")

\* C24: the worker places every page by the saved positions as they were
\* when Run was pressed: the arguments of a page are those _build_args
\* gives for the copy of line 850.
C24_PlacedAsWhenRunWasPressed ==
    [][\A t \in 1..Len(worker) :
          (Len(worker') = Len(worker) /\ Len(worker'[t].placed) > Len(worker[t].placed)) =>
              LET rec == worker'[t].placed[Len(worker'[t].placed)]
                  asPressed == build_args([app EXCEPT !.page_positions = worker[t].copy],
                                          rec.name)
              IN  /\ rec.a.anchor = asPressed.anchor
                  /\ rec.a.offset_x = asPressed.offset_x
                  /\ rec.a.offset_y = asPressed.offset_y]_vars

====
